---- MODULE Spec2Model ----
(***************************************************************************)
(* A model of zet's catalog synchronisation (internal/storage/storage.go)  *)
(* and of the full-text shadow triggers of the catalog schema              *)
(* (internal/storage/sql.go).                                              *)
(*                                                                         *)
(* The notes root is a set of directories, each holding `.md` files with a *)
(* modification time and a text.  Entries the walk skips (plain files in   *)
(* the root, sub-directories and non-`.md` files inside a zettel) have no  *)
(* effect on the catalog and are left out.  Time is counted in ticks of    *)
(* 1/TicksPerSec second, so that a modification time can have a fraction   *)
(* of a second that time.RFC3339 drops.                                    *)
(*                                                                         *)
(* The catalog is the database Init() of storage.go creates: dir, zettel,  *)
(* link(content, zettel_id), tag and zettel_tags.  Init() does not turn    *)
(* foreign-key enforcement on, so no ON DELETE CASCADE runs, and tag.name  *)
(* carries no UNIQUE constraint.                                           *)
(***************************************************************************)
EXTENDS Integers, Sequences, FiniteSets, TLC

VARIABLES
    disk,      \* the notes root: directory -> its `.md` files
    now,       \* wall clock, in ticks
    fsOps,     \* number of filesystem changes made so far
    cat,       \* the committed catalog
    tx,        \* the transaction UpdateDB opened and has not ended
    lastSync,  \* outcome of the last UpdateDB: "none", "ok" or "failed"
    logs,      \* number of log.Printf lines of the last UpdateDB
    dirty,     \* the filesystem changed since the last UpdateDB
    before,    \* the committed catalog the last UpdateDB started from
    fts,       \* the tables of sql.go with their full-text shadow
    cmd        \* a parser or command call: its input and, once run, its result

vars == <<disk, now, fsOps, cat, tx, lastSync, logs, dirty, before, fts, cmd>>

syncVars == <<disk, now, fsOps, cat, tx, lastSync, logs, dirty, before>>

(***************************************************************************)
(* Bounds.                                                                 *)
(***************************************************************************)
MaxTime == 2       \* the clock stops at this tick
TicksPerSec == 2   \* resolution of a modification time below one second
MaxFsOps == 2      \* filesystem changes in one behaviour
MaxId == 5         \* UpdateDB is not started once a row id passed this

Dirs == {1, 2}     \* directory names, in the order os.ReadDir lists them
Names == {1, 2}    \* 1 is README.md, 2 is outline.md (ReadDir order)

(***************************************************************************)
(* Note text: a sequence of lines.  A line is a title line `# s`, a line   *)
(* the link pattern matches (`* [d](../d) s`), a line the tag pattern      *)
(* matches (two tabs, then the tokens toks joined by spaces), or any other *)
(* line s.                                                                 *)
(***************************************************************************)
H1(s) == [k |-> "h1", s |-> s, d |-> 0, toks |-> <<>>]

Lnk(d, s) == [k |-> "link", s |-> s, d |-> d, toks |-> <<>>]

TagLine(toks) == [k |-> "tags", s |-> "", d |-> 0, toks |-> toks]

Txt(s) == [k |-> "text", s |-> s, d |-> 0, toks |-> <<>>]

Tok(hash, w) == [hash |-> hash, w |-> w]

NoteA == <<H1("A"), Txt("x")>>

NoteB == <<H1("B"), Txt("y"), Lnk(1, "A")>>

NoteT == <<H1("T"), TagLine(<<Tok(TRUE, "t1"), Tok(FALSE, "bad")>>)>>

Contents == {NoteA, NoteB, NoteT}

(***************************************************************************)
(* Helpers.                                                                *)
(***************************************************************************)
Min(S) == CHOOSE x \in S : \A y \in S : x <= y

Max(S) == CHOOSE x \in S : \A y \in S : y <= x

\* The members of a set of positive numbers in ascending order.
Sorted(S) ==
    SelectSeq([i \in 1..Max(S \cup {0}) |-> i], LAMBDA i : i \in S)

\* A for loop over the sequence s: step(acc, x) for every x of s in turn.
RECURSIVE ForEach(_, _, _)
ForEach(step(_, _), acc, s) ==
    IF s = <<>> THEN acc ELSE ForEach(step, step(acc, Head(s)), Tail(s))

\* body(v) for the value v of x, x being evaluated once.
With(x, body(_)) == CHOOSE y \in {body(v) : v \in {x}} : TRUE

\* strings.Join(lines, "\n"): a text as the sequence of its lines; the empty
\* text and the text of one empty line are the same string.
Join(lines) == IF lines = <<"">> THEN <<>> ELSE lines

(***************************************************************************)
(* Modification times.                                                     *)
(***************************************************************************)
EmptyString == [set |-> FALSE, sec |-> 0]

Format(t) == [set |-> TRUE, sec |-> t \div TicksPerSec]

isoToTime(s) ==
    IF s.set THEN [err |-> FALSE, t |-> s.sec * TicksPerSec]
             ELSE [err |-> TRUE, t |-> 0]

(***************************************************************************)
(* splitZettel: title, body, links and tags of a note text.                *)
(***************************************************************************)
\* tagsOf as it would be without the test for the leading `#`.
tagsOfEveryToken(toks) ==
    [i \in 1..Len(toks) |-> toks[i].w]

tagsOf(toks) ==
    LET hashed == SelectSeq(toks, LAMBDA t : t.hash)
    IN [i \in 1..Len(hashed) |-> hashed[i].w]

\* One round of the scanner loop.
scanLine(st, line) ==
    IF st.title = "" /\ line.k = "h1"
      THEN [st EXCEPT !.title = line.s, !.isBody = TRUE]
    ELSE IF line.k = "link"
      THEN [st EXCEPT !.links = Append(@, [d |-> line.d, s |-> line.s])]
    ELSE IF line.k = "tags"
      THEN [st EXCEPT !.tags = @ \o tagsOf(line.toks)]
    ELSE IF st.isBody
      THEN [st EXCEPT !.bodyLines =
                Append(@, IF line.k = "h1" THEN "# " \o line.s ELSE line.s)]
    ELSE st

splitZettel(content) ==
    With(ForEach(scanLine, [title |-> "", isBody |-> FALSE, bodyLines |-> <<>>,
                            links |-> <<>>, tags |-> <<>>], content),
         LAMBDA st : [title |-> st.title, body |-> Join(st.bodyLines),
                      links |-> st.links, tags |-> st.tags])

(***************************************************************************)
(* The filesystem.                                                         *)
(***************************************************************************)
\* readable: os.ReadFile of the file succeeds.
NoFile == [exists |-> FALSE, mtime |-> 0, content |-> <<>>, readable |-> TRUE]

NoDir == [exists |-> FALSE, files |-> [n \in Names |-> NoFile]]

mdFiles(d) == {n \in Names : disk[d].files[n].exists}

\* The Zettel value addZettel and processFiles build for a file on disk.
fileZettel(d, n) ==
    With(splitZettel(disk[d].files[n].content),
         LAMBDA p : [Name |-> n, DirName |-> d,
                     Mtime |-> Format(disk[d].files[n].mtime),
                     modTime |-> disk[d].files[n].mtime,
                     Title |-> p.title, Body |-> p.body,
                     Links |-> p.links, Tags |-> p.tags])

(***************************************************************************)
(* The catalog and its statements.                                         *)
(***************************************************************************)
EmptyCat ==
    [dir |-> {}, zettel |-> {}, link |-> {}, tag |-> {}, zettel_tags |-> {},
     seq |-> [dir |-> 0, zettel |-> 0, link |-> 0]]

NoTx == [open |-> FALSE, c |-> EmptyCat]

insertDir(c, name) ==
    IF \E r \in c.dir : r.name = name
      THEN [c |-> c, err |-> TRUE]
      ELSE [c |-> [c EXCEPT !.dir = @ \cup {[id |-> c.seq.dir + 1, name |-> name]},
                            !.seq.dir = @ + 1],
            err |-> FALSE]

insertLinks(c, links, id) ==
    ForEach(LAMBDA c1, l : [c1 EXCEPT !.link = @ \cup {[id |-> c1.seq.link + 1,
                                                        content |-> l,
                                                        zettel_id |-> id]},
                                     !.seq.link = @ + 1],
            c, links)

\* The first statement names the conflict target tag(name), which the tag
\* table of Init() does not declare UNIQUE: the engine rejects the statement,
\* so the first tag ends the loop with an error.
insertTags(c, zettelID, tags) ==
    IF tags = <<>> THEN [c |-> c, err |-> FALSE]
                   ELSE [c |-> c, err |-> TRUE]

insertFile(c, z) ==
    LET id == c.seq.zettel + 1
        c1 == [c EXCEPT !.zettel = @ \cup {[id |-> id, name |-> z.Name,
                                            title |-> z.Title, body |-> z.Body,
                                            mtime |-> z.Mtime, dir_name |-> z.DirName]},
                        !.seq.zettel = @ + 1]
        c2 == insertLinks(c1, z.Links, id)
    IN insertTags(c2, id, z.Tags)

\* The UPDATE of the zettel row is given three arguments for four
\* placeholders; it fails, changes no row, and its error is overwritten.
updateFile(c, z) ==
    LET ids == {r.id : r \in {r \in c.zettel : r.name = z.Name /\ r.dir_name = z.DirName}}
    IN IF ids = {} THEN [c |-> c, err |-> TRUE]
       ELSE LET id == Min(ids)
                c1 == [c EXCEPT !.link = {l \in @ : l.zettel_id # id}]
                c2 == insertLinks(c1, z.Links, id)
                c3 == [c2 EXCEPT !.zettel_tags = {a \in @ : a.zettel_id # id}]
            IN insertTags(c3, id, z.Tags)

deleteFiles(c, zs) ==
    [c EXCEPT !.zettel = {r \in @ : r.id \notin {z.id : z \in zs}}]

deleteDirs(c, names) ==
    [c EXCEPT !.dir = {r \in @ : r.name \notin names}]

\* deleteZettels as it would be if it left the notes to the cascade the schema
\* declares.
deleteZettelsDirsOnly(c, zm) ==
    deleteDirs(c, {z.dir_name : z \in zm})

deleteZettels(c, zm) ==
    deleteDirs(deleteFiles(c, zm), {z.dir_name : z \in zm})

\* zettelsMap: the rows of the zettel table by directory and file name; of two
\* rows with the same key the one read last stays.
zettelsMap(c) ==
    {z \in c.zettel : \A y \in c.zettel :
        (y.dir_name = z.dir_name /\ y.name = z.name) => y.id <= z.id}

(***************************************************************************)
(* addZettel, processFiles, processZettels.                                *)
(***************************************************************************)
addZettel(c, d) ==
    With(insertDir(c, d),
         LAMBDA r : IF r.err THEN r
                    ELSE ForEach(LAMBDA a, n :
                                     IF a.err THEN a
                                     ELSE IF ~disk[d].files[n].readable
                                       THEN [a EXCEPT !.err = TRUE]
                                     ELSE insertFile(a.c, fileZettel(d, n)),
                                 r, Sorted(mdFiles(d))))

\* syncFile that leaves the entry of a file it found in the map, so that
\* processFiles deletes the note afterwards.
syncFileKeepsEntry(a, z, exists, known) ==
    IF ~exists
      THEN With(insertFile(a.c, z),
                LAMBDA r : [c |-> r.c, zm |-> a.zm, err |-> r.err])
      ELSE With(IF z.modTime > isoToTime((CHOOSE f \in known : TRUE).mtime).t
                  THEN updateFile(a.c, z)
                  ELSE [c |-> a.c, err |-> FALSE],
                LAMBDA r : [c |-> r.c, zm |-> a.zm, err |-> r.err])

\* What processFiles does with file z of directory d once it has read it: f is
\* the entry of the map for it, if exists.
syncFile(a, z, exists, known) ==
    IF ~exists
      THEN With(insertFile(a.c, z),
                LAMBDA r : [c |-> r.c, zm |-> a.zm, err |-> r.err])
      ELSE With(IF z.modTime > isoToTime((CHOOSE f \in known : TRUE).mtime).t
                  THEN updateFile(a.c, z)
                  ELSE [c |-> a.c, err |-> FALSE],
                LAMBDA r : IF r.err THEN [c |-> r.c, zm |-> a.zm, err |-> TRUE]
                           ELSE [c |-> r.c, zm |-> a.zm \ known, err |-> FALSE])

\* One round of the loop of processFiles over the files of directory d; a
\* round after a return of the function changes nothing.
processFile(a, d, n) ==
    IF a.err THEN a
    ELSE LET known == {f \in a.zm : f.dir_name = d /\ f.name = n}
             exists == known # {}
             fMtime == IF exists THEN (CHOOSE f \in known : TRUE).mtime ELSE EmptyString
         IN IF isoToTime(fMtime).err THEN [a EXCEPT !.err = TRUE]
            ELSE IF ~disk[d].files[n].readable THEN [a EXCEPT !.err = TRUE]
            ELSE syncFile(a, fileZettel(d, n), exists, known)

processFiles(c, d, zm) ==
    IF ~\E f \in zm : f.dir_name = d THEN [c |-> c, zm |-> zm, err |-> TRUE]
    ELSE With(ForEach(LAMBDA a, n : processFile(a, d, n),
                      [c |-> c, zm |-> zm, err |-> FALSE], Sorted(mdFiles(d))),
              LAMBDA r : IF r.err THEN r
                         ELSE [c |-> deleteFiles(r.c, {f \in r.zm : f.dir_name = d}),
                               zm |-> r.zm, err |-> FALSE])

\* One round of the loop of processZettels over the directories of the root.
processDir(a, d) ==
    IF a.err THEN a
    ELSE IF ~\E f \in a.zm : f.dir_name = d
      THEN With(addZettel(a.c, d),
                LAMBDA r : [a EXCEPT !.c = r.c, !.logs = IF r.err THEN @ + 1 ELSE @])
    ELSE With(processFiles(a.c, d, a.zm),
              LAMBDA r : IF r.err THEN [a EXCEPT !.c = r.c, !.err = TRUE]
                         ELSE [a EXCEPT !.c = r.c,
                                        !.zm = {f \in r.zm : f.dir_name # d}])

processZettels(c, zm) ==
    With(ForEach(processDir, [c |-> c, zm |-> zm, err |-> FALSE, logs |-> 0],
                 Sorted({d \in Dirs : disk[d].exists})),
         LAMBDA a : IF a.err THEN [c |-> a.c, err |-> TRUE, logs |-> a.logs]
                    ELSE [c |-> deleteZettels(a.c, a.zm), err |-> FALSE,
                          logs |-> a.logs])

(***************************************************************************)
(* Actions of the synchronisation model.                                   *)
(***************************************************************************)
ftsInit == [zettel |-> {}, tag |-> {}, zettel_tags |-> {}, zettel_fts |-> {}, seq |-> 0]

\* The notes root UpdateDB first meets: a collection written before the catalog
\* existed, one README.md per directory, the second directory possibly still
\* empty.
File(content) == [exists |-> TRUE, mtime |-> 0, content |-> content, readable |-> TRUE]

Collection ==
    [d \in Dirs |->
        [exists |-> TRUE,
         files |-> [n \in Names |-> IF n = 1 THEN File(IF d = 1 THEN NoteA ELSE NoteB)
                                             ELSE NoFile]]]

InitSync ==
    /\ disk \in {Collection, [Collection EXCEPT ![2].files[1] = NoFile]}
    /\ now = 0
    /\ fsOps = 0
    /\ cat = EmptyCat
    /\ tx = NoTx
    /\ lastSync = "none"
    /\ logs = 0
    /\ dirty = FALSE
    /\ before = EmptyCat

NoCmd == [op |-> "none"]

Init == InitSync /\ fts = ftsInit /\ cmd = NoCmd

fsChange ==
    /\ fsOps < MaxFsOps
    /\ fsOps' = fsOps + 1
    /\ dirty' = TRUE
    /\ UNCHANGED <<now, cat, tx, lastSync, logs, before, fts, cmd>>

Mkdir ==
    \E d \in Dirs :
        /\ ~disk[d].exists
        /\ disk' = [disk EXCEPT ![d].exists = TRUE]
        /\ fsChange

RemoveAll ==
    \E d \in Dirs :
        /\ disk[d].exists
        /\ disk' = [disk EXCEPT ![d] = NoDir]
        /\ fsChange

\* An editor writes a file; its modification time is the present time.
WriteFile ==
    \E d \in Dirs, n \in Names, content \in Contents :
        /\ disk[d].exists
        /\ disk' = [disk EXCEPT ![d].files[n] =
                       [exists |-> TRUE, mtime |-> now, content |-> content,
                        readable |-> TRUE]]
        /\ fsChange

Remove ==
    \E d \in Dirs, n \in Names :
        /\ disk[d].files[n].exists
        /\ disk' = [disk EXCEPT ![d].files[n] = NoFile]
        /\ fsChange

\* The file loses its read permission: os.ReadFile fails on it from now on.
Chmod ==
    \E d \in Dirs, n \in Names :
        /\ disk[d].files[n].exists
        /\ disk[d].files[n].readable
        /\ disk' = [disk EXCEPT ![d].files[n].readable = FALSE]
        /\ fsChange

Tick ==
    /\ now < MaxTime
    /\ now' = now + 1
    /\ UNCHANGED <<disk, fsOps, cat, tx, lastSync, logs, dirty, before, fts, cmd>>

\* UpdateDB: load the map, open the transaction, walk, commit.  When the walk
\* fails UpdateDB returns the error and ends neither the transaction nor the
\* connection.
UpdateDB ==
    /\ ~tx.open
    /\ cat.seq.dir <= MaxId /\ cat.seq.zettel <= MaxId /\ cat.seq.link <= MaxId
    /\ \E r \in {processZettels(cat, zettelsMap(cat))} :
          /\ IF r.err
               THEN /\ tx' = [open |-> TRUE, c |-> r.c]
                    /\ cat' = cat
                    /\ lastSync' = "failed"
               ELSE /\ tx' = NoTx
                    /\ cat' = r.c
                    /\ lastSync' = "ok"
          /\ logs' = r.logs
    /\ before' = cat
    /\ dirty' = FALSE
    /\ UNCHANGED <<disk, now, fsOps, fts, cmd>>

\* The command that called UpdateDB returns its error to main, which logs it
\* and returns: the process ends and the engine drops the open transaction.
Exit ==
    /\ tx.open
    /\ tx' = NoTx
    /\ UNCHANGED <<disk, now, fsOps, cat, lastSync, logs, dirty, before, fts, cmd>>

Next ==
    Mkdir \/ RemoveAll \/ WriteFile \/ Remove \/ Chmod \/ Tick \/ UpdateDB \/ Exit

Spec == Init /\ [][Next]_vars

(***************************************************************************)
(* Properties of the synchronisation.                                      *)
(***************************************************************************)
onDisk(d, n) == disk[d].exists /\ disk[d].files[n].exists

notes(c, d, n) == {z \in c.zettel : z.dir_name = d /\ z.name = n}

\* UpdateDB returned without an error and the filesystem is as it found it.
Synced == lastSync = "ok" /\ ~dirty

\* C1: after every successful sync every `.md` file under the notes root has
\* exactly one catalog note with its directory name and file name.
EveryFileHasOneNote ==
    Synced => \A d \in Dirs, n \in Names :
                  onDisk(d, n) => Cardinality(notes(cat, d, n)) = 1

\* C2: after every successful sync no catalog note remains whose file is absent
\* from disk, whether the file was deleted from a directory that stays or the
\* whole directory was removed.
NoNoteWithoutFile ==
    Synced => \A z \in cat.zettel : onDisk(z.dir_name, z.name)

\* A successful sync that met both cases: it started from a catalog holding a
\* note whose file is gone while its directory stays, and a note whose
\* directory is gone, and neither note is left.
DeletedFileAndDirWitness ==
    /\ Synced
    /\ \E z \in before.zettel :
           /\ disk[z.dir_name].exists
           /\ ~disk[z.dir_name].files[z.name].exists
           /\ z \notin cat.zettel
    /\ \E z \in before.zettel :
           /\ ~disk[z.dir_name].exists
           /\ z \notin cat.zettel

\* C3: after every successful sync every directory row has at least one
\* indexed note.
EveryDirRowHasANote ==
    Synced => \A r \in cat.dir : \E z \in cat.zettel : z.dir_name = r.name

\* C6: every link row points to a note of the catalog: the directory its link
\* line names has a note row.
EveryLinkHasATarget ==
    \A l \in cat.link : \E z \in cat.zettel : z.dir_name = l.content.d

\* C7: a sync that follows a successful sync with no filesystem change in
\* between leaves every row of the catalog as it was.
SyncIdempotent ==
    [][(Synced /\ UpdateDB) => cat' = cat]_vars

\* C8: if an indexed file's modification time is a later second than the stored
\* one, the next sync sets the note row's title and body to the newly parsed values and its
\* stored mtime to the file's mtime truncated to seconds.
ModifiedFileIsUpdated ==
    Synced => \A z \in before.zettel :
        (onDisk(z.dir_name, z.name)
           /\ z.mtime.set
           /\ Format(disk[z.dir_name].files[z.name].mtime).sec > z.mtime.sec)
        => LET f == fileZettel(z.dir_name, z.name)
           IN \E y \in cat.zettel :
                  /\ y.id = z.id
                  /\ y.title = f.Title /\ y.body = f.Body /\ y.mtime = f.Mtime

\* C9: when a directory that has notes in the catalog gains a new `.md` file,
\* the next sync inserts that file as a new note and completes successfully.
NewFileInKnownDirIsInserted ==
    (lastSync # "none" /\ ~dirty) =>
        \A d \in Dirs, n \in Names :
            (/\ onDisk(d, n)
             /\ \E z \in before.zettel : z.dir_name = d
             /\ notes(before, d, n) = {})
            => /\ lastSync = "ok"
               /\ \E y \in cat.zettel :
                      /\ y.dir_name = d /\ y.name = n
                      /\ y.title = fileZettel(d, n).Title

\* C10: if UpdateDB returns an error after it opened its transaction, the
\* transaction is rolled back: the catalog is as before the run and no
\* transaction is left open.
FailedSyncIsRolledBack ==
    lastSync = "failed" => (cat = before /\ ~tx.open)

\* C11: a failure on one note during the walk (here a file os.ReadFile cannot
\* read) is logged, the walk goes on and the sync commits: UpdateDB returns
\* no error and every readable file of every other directory has its note.
unreadable(d, n) == onDisk(d, n) /\ ~disk[d].files[n].readable

WalkGoesOnAfterAFailure ==
    (lastSync # "none" /\ ~dirty /\ \E d \in Dirs, n \in Names : unreadable(d, n))
    => lastSync = "ok"

(***************************************************************************)
(* The tables and triggers of tablesSQL (sql.go): zettel, tag, zettel_tags *)
(* and the shadow zettel_fts.  PRAGMA foreign_keys = ON ends the script,   *)
(* so foreign keys are enforced and deleting a note deletes its            *)
(* associations.  Every action is one statement with the triggers it       *)
(* fires.                                                                  *)
(***************************************************************************)
MaxRows == 2                 \* rows the zettel and the tag table are given

Titles == {"A", "B"}

Bodies == {"x", "y"}

TagNames == {"t1", "t2"}

\* GROUP_CONCAT(name, ' ') over the tags associated with note id, in the order
\* of the tag ids.
namesOf(t, ids) ==
    [i \in 1..Len(ids) |-> (CHOOSE r \in t.tag : r.id = ids[i]).name]

groupConcat(t, id) ==
    namesOf(t, Sorted({a.tag_id : a \in {a \in t.zettel_tags : a.zettel_id = id}}))

\* UPDATE zettel_fts SET tags = (...) WHERE rowid = id
refreshTags(t, id) ==
    [t EXCEPT !.zettel_fts =
        {IF r.rowid = id THEN [r EXCEPT !.tags = groupConcat(t, id)] ELSE r : r \in @}]

InsertZettel ==
    \E title \in Titles, body \in Bodies :
        /\ fts.seq < MaxRows
        /\ LET id == fts.seq + 1
               t1 == [fts EXCEPT !.zettel = @ \cup {[id |-> id, title |-> title,
                                                     body |-> body]},
                                 !.seq = id]
           IN fts' = [t1 EXCEPT !.zettel_fts = @ \cup
                         {[rowid |-> id, title |-> title, body |-> body,
                           tags |-> groupConcat(t1, id)]}]
        /\ UNCHANGED <<syncVars, cmd>>

UpdateZettel ==
    \E old \in fts.zettel, title \in Titles, body \in Bodies :
        /\ LET t1 == [fts EXCEPT !.zettel = (@ \ {old}) \cup
                         {[id |-> old.id, title |-> title, body |-> body]}]
           IN fts' = [t1 EXCEPT !.zettel_fts =
                         {IF r.rowid = old.id
                            THEN [rowid |-> r.rowid, title |-> title, body |-> body,
                                  tags |-> groupConcat(t1, old.id)]
                            ELSE r : r \in @}]
        /\ UNCHANGED <<syncVars, cmd>>

DeleteZettel ==
    \E old \in fts.zettel :
        /\ LET t1 == [fts EXCEPT !.zettel = @ \ {old},
                                 !.zettel_tags = {a \in @ : a.zettel_id # old.id}]
               t2 == refreshTags(t1, old.id)
           IN fts' = [t2 EXCEPT !.zettel_fts = {r \in @ : r.rowid # old.id}]
        /\ UNCHANGED <<syncVars, cmd>>

InsertTag ==
    \E name \in TagNames :
        /\ ~\E r \in fts.tag : r.name = name
        /\ Cardinality(fts.tag) < MaxRows
        /\ fts' = [fts EXCEPT !.tag = @ \cup
                      {[id |-> Max({0} \cup {r.id : r \in fts.tag}) + 1, name |-> name]}]
        /\ UNCHANGED <<syncVars, cmd>>

InsertZettelTag ==
    \E z \in fts.zettel, g \in fts.tag :
        /\ [zettel_id |-> z.id, tag_id |-> g.id] \notin fts.zettel_tags
        /\ fts' = refreshTags([fts EXCEPT !.zettel_tags = @ \cup
                                  {[zettel_id |-> z.id, tag_id |-> g.id]}], z.id)
        /\ UNCHANGED <<syncVars, cmd>>

UpdateZettelTag ==
    \E old \in fts.zettel_tags, z \in fts.zettel, g \in fts.tag :
        LET new == [zettel_id |-> z.id, tag_id |-> g.id]
        IN /\ new # old
           /\ new \notin fts.zettel_tags
           /\ fts' = refreshTags([fts EXCEPT !.zettel_tags = (@ \ {old}) \cup {new}],
                                 new.zettel_id)
           /\ UNCHANGED <<syncVars, cmd>>

DeleteZettelTag ==
    \E old \in fts.zettel_tags :
        /\ fts' = refreshTags([fts EXCEPT !.zettel_tags = @ \ {old}], old.zettel_id)
        /\ UNCHANGED <<syncVars, cmd>>

NextFts ==
    \/ InsertZettel \/ UpdateZettel \/ DeleteZettel
    \/ InsertTag \/ InsertZettelTag \/ UpdateZettelTag \/ DeleteZettelTag

SpecFts == Init /\ [][NextFts]_vars

\* C4: after any sequence of inserts, updates and deletes on note rows and on
\* note-tag associations the full-text rows are the note rows by id, and each
\* full-text row holds its note's title, its body and the space-joined names
\* of the tags now associated with it.
FtsMirrorsNotes ==
    /\ {r.rowid : r \in fts.zettel_fts} = {z.id : z \in fts.zettel}
    /\ \A z \in fts.zettel : \A r \in fts.zettel_fts :
           r.rowid = z.id =>
               /\ r.title = z.title
               /\ r.body = z.body
               /\ r.tags = groupConcat(fts, z.id)

(***************************************************************************)
(* The parsers on arbitrary note texts: splitZettel of package storage and *)
(* parseTitle, ParseBody and ParseLinks of package meta.  A text is the    *)
(* sequence of the lines bufio.Scanner yields for it.  The tag pattern of  *)
(* package meta wants four or more spaces before the first `#`, the one of *)
(* splitZettel two tabs: a line of either form is plain text to the other  *)
(* parser.                                                                 *)
(***************************************************************************)
MaxLines == 3                \* lines of a note text

\* The line `    #t1`.
SpTagLine == [k |-> "sptags", s |-> "    #t1", d |-> 0, toks |-> <<Tok(TRUE, "t1")>>]

Lines ==
    {H1(""), H1("A"), Txt(""), Txt("x"), Lnk(1, "A"),
     TagLine(<<Tok(TRUE, "t1"), Tok(FALSE, "bad")>>), SpTagLine}

Texts == UNION {[1..n -> Lines] : n \in 0..MaxLines}

\* The characters of a line.
raw(line) ==
    IF line.k = "h1" THEN "# " \o line.s
    ELSE IF line.k = "link"
      THEN "* [" \o ToString(line.d) \o "](../" \o ToString(line.d) \o ") " \o line.s
    ELSE IF line.k = "tags"
      THEN ForEach(LAMBDA acc, t : acc \o (IF acc = "\t\t" THEN "" ELSE " ")
                                       \o (IF t.hash THEN "#" ELSE "") \o t.w,
                   "\t\t", line.toks)
    ELSE line.s

lineOf(r) == CHOOSE l \in Lines : raw(l) = r

\* bufio.Scanner over a text given as its pieces between newlines: an empty
\* piece after the last newline is no line.
scanLines(pieces) ==
    LET n == Len(pieces)
        kept == IF n > 0 /\ pieces[n] = "" THEN SubSeq(pieces, 1, n - 1) ELSE pieces
    IN [i \in 1..Len(kept) |-> lineOf(kept[i])]

\* parseTitle with the prefix `# `: the scan stops at the first line that has
\* the prefix.
parseTitle(content) ==
    LET hs == SelectSeq(content, LAMBDA l : l.k = "h1")
    IN IF hs = <<>> THEN "" ELSE hs[1].s

\* One round of the scanner loop of ParseBody.
bodyLine(st, line) ==
    IF st.title = "" /\ line.k = "h1"
      THEN [st EXCEPT !.title = line.s, !.isBody = TRUE]
    ELSE IF line.k = "link" THEN st
    ELSE IF line.k = "sptags" THEN st
    ELSE IF st.isBody THEN [st EXCEPT !.bodyLines = Append(@, raw(line))]
    ELSE st

ParseBody(content) ==
    ForEach(bodyLine, [title |-> "", isBody |-> FALSE, bodyLines |-> <<>>],
            content).bodyLines

ParseLinks(content) ==
    LET ls == SelectSeq(content, LAMBDA l : l.k = "link")
    IN [i \in 1..Len(ls) |-> [d |-> ls[i].d, s |-> ls[i].s]]

\* The text `# <title>` + newline + `<body>`, read again by a scanner.  The
\* body is a string: its pieces between newlines, the empty string being one
\* empty piece.
reassemble(title, body) ==
    scanLines(<<"# " \o title>> \o (IF body = <<>> THEN <<"">> ELSE body))

\* Everything but cmd is at rest while a parser or a command is looked at.
Quiet ==
    /\ disk = Collection
    /\ now = 0
    /\ fsOps = 0
    /\ cat = EmptyCat
    /\ tx = NoTx
    /\ lastSync = "none"
    /\ logs = 0
    /\ dirty = FALSE
    /\ before = EmptyCat
    /\ fts = ftsInit

InitParse == Quiet /\ cmd \in {[op |-> "text", text |-> t] : t \in Texts}

RunSplitZettel ==
    /\ cmd.op = "text"
    /\ cmd' = [op |-> "splitZettel", text |-> cmd.text, res |-> splitZettel(cmd.text)]
    /\ UNCHANGED <<syncVars, fts>>

\* Title and Body of package meta on the same file.
RunTitleBody ==
    /\ cmd.op = "text"
    /\ cmd' = [op |-> "meta", text |-> cmd.text,
               res |-> [title |-> parseTitle(cmd.text), lines |-> ParseBody(cmd.text),
                        body |-> Join(ParseBody(cmd.text))]]
    /\ UNCHANGED <<syncVars, fts>>

RunParseLinks ==
    /\ cmd.op = "text"
    /\ cmd' = [op |-> "ParseLinks", text |-> cmd.text, res |-> ParseLinks(cmd.text)]
    /\ UNCHANGED <<syncVars, fts>>

\* The result of splitZettel written back as `# title\nbody` and split again.
ResplitZettel ==
    /\ cmd.op = "splitZettel"
    /\ cmd' = [op |-> "resplit", text |-> cmd.text, res |-> cmd.res,
               again |-> splitZettel(reassemble(cmd.res.title, cmd.res.body))]
    /\ UNCHANGED <<syncVars, fts>>

\* The same with Title and Body of package meta.
ReparseTitleBody ==
    /\ cmd.op = "meta"
    /\ \E t \in {reassemble(cmd.res.title, cmd.res.body)} :
           cmd' = [op |-> "remeta", text |-> cmd.text, res |-> cmd.res,
                   again |-> [title |-> parseTitle(t), body |-> Join(ParseBody(t))]]
    /\ UNCHANGED <<syncVars, fts>>

NextParse ==
    \/ RunSplitZettel \/ RunTitleBody \/ RunParseLinks
    \/ ResplitZettel \/ ReparseTitleBody

SpecParse == InitParse /\ [][NextParse]_vars

\* The first line of a text that starts with `# `, 0 when there is none.
titleAt(content) ==
    IF \E i \in 1..Len(content) : content[i].k = "h1"
      THEN Min({i \in 1..Len(content) : content[i].k = "h1"})
      ELSE 0

\* The lines of a text from its title line on; none when it has no title line.
fromTitle(content) ==
    IF titleAt(content) = 0 THEN <<>>
    ELSE SubSeq(content, titleAt(content), Len(content))

\* C12: the title splitZettel returns is the text after `# ` on the first line
\* that starts with `# `, and the empty string when there is no such line; no
\* later line becomes the title.
TitleIsFirstHeading ==
    cmd.op = "splitZettel" =>
        cmd.res.title = (IF titleAt(cmd.text) = 0 THEN ""
                         ELSE cmd.text[titleAt(cmd.text)].s)

\* C13: ParseBody returns, in their order and with the blank lines, exactly the
\* lines after the title line that are neither link lines nor tag lines.
BodyIsTheLinesAfterTheTitle ==
    cmd.op = "meta" =>
        LET rest == SelectSeq(Tail(fromTitle(cmd.text)),
                              LAMBDA l : l.k \notin {"link", "sptags"})
        IN /\ titleAt(cmd.text) = 0 => cmd.res.lines = <<>>
           /\ titleAt(cmd.text) # 0 =>
                  cmd.res.lines = [i \in 1..Len(rest) |-> raw(rest[i])]

\* The words of the tokens of a tag line that begin with `#`.
hashWords(toks) ==
    LET hs == SelectSeq(toks, LAMBDA t : t.hash)
    IN [i \in 1..Len(hs) |-> hs[i].w]

ParseSerializeRoundTrip ==
    cmd.op \in {"resplit", "remeta"} =>
        (cmd.again.title = cmd.res.title /\ cmd.again.body = cmd.res.body)

\* C16: the lines before the title line contribute nothing: body, links and
\* tags are those of the text that starts at the title line.
LinesBeforeTitleAreDiscarded ==
    /\ cmd.op = "splitZettel" =>
           LET r == splitZettel(fromTitle(cmd.text))
           IN /\ cmd.res.body = r.body
              /\ cmd.res.links = r.links
              /\ cmd.res.tags = r.tags
    /\ cmd.op = "ParseLinks" => cmd.res = ParseLinks(fromTitle(cmd.text))

(***************************************************************************)
(* makeZettels: the sub-notes of a body.  SplitZettel hands it             *)
(* strings.Split(b, "\n"): the pieces of the body between newlines, so a   *)
(* body that ends with a newline has an empty last piece.                  *)
(***************************************************************************)
MaxPieces == 3               \* pieces of a body

H2(s) == [k |-> "h2", s |-> s]

H3(s) == [k |-> "h3", s |-> s]

Piece(s) == [k |-> "text", s |-> s]

Pieces == {H2("A"), H2("B"), H3("s"), Piece("x"), Piece("")}

BodyTexts == UNION {[1..n -> Pieces] : n \in 1..MaxPieces}

\* The characters of a piece.
rawPiece(l) ==
    IF l.k = "h2" THEN "## " \o l.s
    ELSE IF l.k = "h3" THEN "### " \o l.s
    ELSE l.s

\* A line that starts with `###` loses one `#`.
demoted(l) == IF l.k = "h3" THEN "## " \o l.s ELSE rawPiece(l)

NoZettel == [Title |-> "", Body |-> <<>>]

\* One round of the loop of makeZettels, on piece i of n.  Body is kept as the
\* sequence of its lines, each of which the code ends with a newline.
makeStep(st, bodyLines, i) ==
    IF bodyLines[i].k = "h2" \/ i = Len(bodyLines)
      THEN [zettels |-> IF st.isInsideZettel THEN Append(st.zettels, st.currZettel)
                                             ELSE st.zettels,
            currZettel |-> [Title |-> IF bodyLines[i].k = "h2" THEN bodyLines[i].s
                                      ELSE rawPiece(bodyLines[i]),
                            Body |-> IF st.isInsideZettel THEN <<>>
                                     ELSE st.currZettel.Body],
            isInsideZettel |-> TRUE]
      ELSE [st EXCEPT !.currZettel.Body = Append(@, demoted(bodyLines[i]))]

makeZettels(bodyLines) ==
    ForEach(LAMBDA st, i : makeStep(st, bodyLines, i),
            [zettels |-> <<>>, currZettel |-> NoZettel, isInsideZettel |-> FALSE],
            [i \in 1..Len(bodyLines) |-> i]).zettels

InitMake == Quiet /\ cmd \in {[op |-> "body", lines |-> b] : b \in BodyTexts}

RunMakeZettels ==
    /\ cmd.op = "body"
    /\ cmd' = [op |-> "makeZettels", lines |-> cmd.lines, res |-> makeZettels(cmd.lines)]
    /\ UNCHANGED <<syncVars, fts>>

NextMake == RunMakeZettels

SpecMake == InitMake /\ [][NextMake]_vars

\* The places of the `## ` headings of a body, in order.
headings(b) == Sorted({i \in 1..Len(b) : b[i].k = "h2"})

\* The lines of a body: its pieces, without the empty piece that follows a
\* closing newline.
lastLine(b) == IF b[Len(b)] = Piece("") THEN Len(b) - 1 ELSE Len(b)

\* The lines that follow heading j up to the next heading or the end.
section(b, j) ==
    LET hs == headings(b)
        to == IF j < Len(hs) THEN hs[j + 1] - 1 ELSE lastLine(b)
    IN [i \in 1..(to - hs[j]) |-> demoted(b[hs[j] + i])]

\* C17: makeZettels returns exactly one sub-note per line that begins with
\* `## `, in the order of the text, titled with the text after `## `.
OneSubNotePerHeading ==
    cmd.op = "makeZettels" =>
        [i \in 1..Len(cmd.res) |-> cmd.res[i].Title]
            = [j \in 1..Len(headings(cmd.lines)) |-> cmd.lines[headings(cmd.lines)[j]].s]

\* C18: the body of each sub-note is exactly the lines that follow its heading
\* up to, and without, the next heading or the end of the text (a `###` line
\* with one `#` less).
SubNoteBodyIsItsSection ==
    cmd.op = "makeZettels" =>
        \A j \in 1..Len(cmd.res) :
            j <= Len(headings(cmd.lines)) => cmd.res[j].Body = section(cmd.lines, j)

(***************************************************************************)
(* SplitZettel: one directory per sub-note, named by counting up from the  *)
(* present Isosec.  Directory names are numbers, the clock is the number   *)
(* Isosec gives now; zetDir is the set of directories of the notes root.    *)
(***************************************************************************)
MaxClock == 3                \* the clock of the split model stops here

\* dir as it would be with os.MkdirAll: no error when the directory exists.
dirMkdirAll(zetDir, p) == [notes |-> zetDir \cup {p}, err |-> FALSE]

\* dir: os.Mkdir fails when the path exists.
dir(zetDir, p) ==
    IF p \in zetDir THEN [notes |-> zetDir, err |-> TRUE]
                    ELSE [notes |-> zetDir \cup {p}, err |-> FALSE]

\* One round of the loop of SplitZettel; Add writes README.md into the
\* directory just made.
splitStep(a, z) ==
    IF a.err THEN a
    ELSE With(dir(a.notes, a.iso + 1),
              LAMBDA r : IF r.err THEN [a EXCEPT !.iso = @ + 1, !.err = TRUE]
                         ELSE [a EXCEPT !.iso = @ + 1, !.notes = r.notes,
                                        !.written = Append(@, a.iso + 1)])

\* SplitZettel(zetDir, zettelDir, b) at the time iso: the directories after
\* it, the directories Add wrote into, and whether it returned an error.
SplitZettel(zetDir, iso, b) ==
    IF b = <<Piece("")>> THEN [notes |-> zetDir, iso |-> iso, written |-> <<>>, err |-> TRUE]
    ELSE ForEach(splitStep, [notes |-> zetDir, iso |-> iso, written |-> <<>>, err |-> FALSE],
                 makeZettels(b))

InitSplit ==
    /\ Quiet
    /\ cmd = [op |-> "none", notes |-> {}, clock |-> 1, had |-> {}, subs |-> 0,
              written |-> <<>>, err |-> FALSE]

\* `zet split` at the present second.
RunSplit ==
    \E b \in BodyTexts :
        /\ \E r \in {SplitZettel(cmd.notes, cmd.clock, b)} :
               cmd' = [op |-> "split", notes |-> r.notes, clock |-> cmd.clock,
                       had |-> cmd.notes, subs |-> Len(makeZettels(b)),
                       written |-> r.written, err |-> r.err]
        /\ UNCHANGED <<syncVars, fts>>

\* The user removes a note directory.
RemoveNote ==
    \E p \in cmd.notes :
        /\ cmd' = [cmd EXCEPT !.op = "rm", !.notes = @ \ {p}]
        /\ UNCHANGED <<syncVars, fts>>

Second ==
    /\ cmd.clock < MaxClock
    /\ cmd' = [cmd EXCEPT !.op = "tick", !.clock = @ + 1]
    /\ UNCHANGED <<syncVars, fts>>

NextSplit == RunSplit \/ RemoveNote \/ Second

SpecSplit == InitSplit /\ [][NextSplit]_vars

\* C19: within one Split the directory names of the sub-notes are pairwise
\* distinct and no sub-note is written into a directory that existed before:
\* when a generated name exists already, Split returns an error.
SplitWritesOnlyFreshDirs ==
    cmd.op = "split" =>
        /\ \A i, j \in 1..Len(cmd.written) :
               i # j => cmd.written[i] # cmd.written[j]
        /\ \A i \in 1..Len(cmd.written) : cmd.written[i] \notin cmd.had
        /\ (\E k \in 1..cmd.subs : cmd.clock + k \in cmd.had) => cmd.err

\* A Split of two sub-notes wrote the first and then met a directory that
\* existed already.
SplitCollisionWitness ==
    /\ cmd.op = "split"
    /\ cmd.subs = 2
    /\ cmd.written = <<cmd.clock + 1>>
    /\ cmd.clock + 2 \in cmd.had
    /\ cmd.err

(***************************************************************************)
(* CreateAdd and Add: the text of a new README.md.  A text is a sequence   *)
(* of characters here, so that the place where a part starts can be told.  *)
(***************************************************************************)
MaxStdin == 2                \* lines read from a pipe

NL == "\n"

See == <<"S", "e", "e", ":", NL, NL>>

AddTitles == {<<>>, <<"t">>}
AddBodies == {<<>>, <<"b">>, <<"b", NL>>}
AddLinks == {<<>>, <<"l">>}
StdinLines == {<<>>, <<"s">>}

\* Standard input of `zet add`: a terminal, or a pipe holding some lines.
Stdins ==
    {[tty |-> TRUE, lines |-> <<>>]}
        \cup {[tty |-> FALSE, lines |-> l] :
                 l \in UNION {[1..k -> StdinLines] : k \in 0..MaxStdin}}

TrimSuffixNL(t) ==
    IF t # <<>> /\ t[Len(t)] = NL THEN SubSeq(t, 1, Len(t) - 1) ELSE t

appendLine(t, line) == t \o line \o <<NL>>

\* AddCmd: the lines of a pipe, a newline after each, less the last newline.
readStdin(in) ==
    IF in.tty THEN <<>> ELSE TrimSuffixNL(ForEach(appendLine, <<>>, in.lines))

\* Add: fullText.
fullText(title, body, stdin, link) ==
    <<"#", " ">> \o title \o <<NL>>
        \o (IF body # <<>> THEN body ELSE <<>>)
        \o (IF stdin # <<>> THEN stdin ELSE <<>>)
        \o (IF link # <<>> THEN See \o link ELSE <<>>)
        \o <<NL>>

\* CreateAdd: a directory named by Isosec, then Add.
CreateAdd(zetDir, iso, title, body, stdin, link) ==
    With(dir(zetDir, iso),
         LAMBDA r : IF r.err THEN [notes |-> zetDir, file |-> <<>>, err |-> TRUE]
                    ELSE [notes |-> r.notes, err |-> FALSE,
                          file |-> fullText(title, body, stdin, link)])

InitAdd ==
    /\ Quiet
    /\ cmd = [op |-> "none", notes |-> {}, clock |-> 1, title |-> <<>>,
              body |-> <<>>, stdin |-> <<>>, link |-> <<>>, file |-> <<>>,
              err |-> FALSE]

\* `zet add [title [body]]` at the present second.
RunAddCmd ==
    \E title \in AddTitles, body \in AddBodies, in \in Stdins, link \in AddLinks :
        /\ \E r \in {CreateAdd(cmd.notes, cmd.clock, title, body, readStdin(in), link)} :
               cmd' = [op |-> "add", notes |-> r.notes, clock |-> cmd.clock,
                       title |-> title, body |-> body, stdin |-> readStdin(in),
                       link |-> link, file |-> r.file, err |-> r.err]
        /\ UNCHANGED <<syncVars, fts>>

NextAdd == RunAddCmd \/ Second

SpecAdd == InitAdd /\ [][NextAdd]_vars

\* The text t with the part p after it, p starting on a line of its own;
\* an empty part adds nothing.
onOwnLine(t, p) ==
    IF p = <<>> THEN t
    ELSE (IF t[Len(t)] = NL THEN t ELSE t \o <<NL>>) \o p

\* C20: Create writes the line `# <title>` and then, each starting on a line
\* of its own and only when not empty, the body, the stdin text and the
\* back-link section (`See:`, an empty line, the back-link); an empty part
\* adds nothing.
CreateWritesPartsOnOwnLines ==
    (cmd.op = "add" /\ ~cmd.err) =>
        cmd.file =
            onOwnLine(onOwnLine(onOwnLine(<<"#", " ">> \o cmd.title \o <<NL>>,
                                          cmd.body),
                                cmd.stdin),
                      IF cmd.link = <<>> THEN <<>> ELSE See \o cmd.link)
                \o <<NL>>

(***************************************************************************)
(* Configuration: C.Init reads the environment of the process.             *)
(***************************************************************************)
Unset == [set |-> FALSE, v |-> ""]

Set(v) == [set |-> TRUE, v |-> v]

\* What os.Stat finds at a path.
Stat(path) ==
    CASE path = "/zet"  -> "dir"
      [] path = "/zet2" -> "dir"
      [] path = "/file" -> "file"
      [] OTHER          -> "missing"

Envs ==
    [VISUAL      : {Unset, Set(""), Set("vis")},
     EDITOR      : {Unset, Set("ed")},
     ZET_DIR     : {Unset, Set("/zet"), Set("/zet2"), Set("/file"), Set("/gone")},
     ZET_DB_PATH : {Unset, Set(""), Set("/db/zet.db")},
     lookPath    : {"", "/bin/vim"},
     configDir   : {"", "/home/.config"}]

Getenv(env, key) == env[key].v

pathJoin(p, name) == p \o "/" \o name

\* preferredEditor; lookPath is the first fallback editor found, if any.
preferredEditor(env) ==
    IF Getenv(env, "VISUAL") # "" THEN [v |-> Getenv(env, "VISUAL"), err |-> FALSE]
    ELSE IF Getenv(env, "EDITOR") # "" THEN [v |-> Getenv(env, "EDITOR"), err |-> FALSE]
    ELSE IF env.lookPath # "" THEN [v |-> env.lookPath, err |-> FALSE]
    ELSE [v |-> "", err |-> TRUE]

isDir(path) ==
    IF Stat(path) = "missing" THEN [v |-> FALSE, err |-> TRUE]
    ELSE [v |-> Stat(path) = "dir", err |-> FALSE]

zetDir(env) ==
    IF env.ZET_DIR.set
      THEN IF isDir(env.ZET_DIR.v).err THEN [v |-> "", err |-> TRUE]
           ELSE IF ~isDir(env.ZET_DIR.v).v THEN [v |-> "", err |-> TRUE]
           ELSE [v |-> env.ZET_DIR.v, err |-> FALSE]
      ELSE [v |-> "", err |-> TRUE]

\* os.UserConfigDir fails when neither $XDG_CONFIG_HOME nor $HOME is set.
userConfigDir(env) == [v |-> env.configDir, err |-> env.configDir = ""]

dbPath(env) ==
    IF Getenv(env, "ZET_DB_PATH") = "" THEN [v |-> "", err |-> TRUE]
    ELSE [v |-> Getenv(env, "ZET_DB_PATH"), err |-> FALSE]

EmptyC == [Id |-> "", ConfDir |-> "", File |-> "", Editor |-> "", DBPath |-> "",
           ZetDir |-> ""]

\* (c *C) Init on a new(config.C).  The default of line 145 is assigned to
\* c.DBPath first and line 153 assigns the result of dbPath after it.
ConfigInit(env) ==
    IF preferredEditor(env).err \/ zetDir(env).err \/ userConfigDir(env).err
      THEN [c |-> EmptyC, err |-> TRUE]
      ELSE [c |-> [[EmptyC EXCEPT
                       !.DBPath = IF dbPath(env).err
                                    THEN pathJoin(zetDir(env).v, "data.db") ELSE @]
                     EXCEPT !.ZetDir = zetDir(env).v,
                            !.ConfDir = userConfigDir(env).v,
                            !.Id = "zet",
                            !.File = "config.yaml",
                            !.Editor = preferredEditor(env).v,
                            !.DBPath = dbPath(env).v],
            err |-> FALSE]

InitConfig ==
    /\ Quiet
    /\ cmd \in {[op |-> "env", env |-> e, c |-> EmptyC, err |-> FALSE] : e \in Envs}

\* A command starts: c := new(config.C); c.Init().
RunConfigInit ==
    /\ cmd.op = "env"
    /\ \E r \in {ConfigInit(cmd.env)} :
           cmd' = [cmd EXCEPT !.op = "init", !.c = r.c, !.err = r.err]
    /\ UNCHANGED <<syncVars, fts>>

NextConfig == RunConfigInit

SpecConfig == InitConfig /\ [][NextConfig]_vars

\* C21: with ZET_DB_PATH unset or empty, a configuration that initialises
\* has the database path <notes root>/data.db.
DefaultDBPathIsInNotesRoot ==
    (cmd.op = "init" /\ ~cmd.err /\ Getenv(cmd.env, "ZET_DB_PATH") = "")
        => cmd.c.DBPath = pathJoin(cmd.c.ZetDir, "data.db")

(***************************************************************************)
(* Search: `zet search query` and the search UI of `zet search browse`.    *)
(* The UI has the thread of the tview event loop, the goroutine that loads *)
(* all zettels, the debounce timer and one goroutine per timer that fired. *)
(***************************************************************************)
MaxEdits == 2                \* changes of the search text by the user

Queries == {"", "a", "b", "("}

ResultZettel(d, t, b, tags) ==
    [DirName |-> d, TitleSnippet |-> t, BodySnippet |-> b, TagsSnippet |-> tags]

\* s.SearchZettels(query, before, after): the rows of a match query, or the
\* error of a query the full-text index rejects.
SearchZettels(query) ==
    CASE query = "a" -> [rows |-> <<ResultZettel("1", "[a]", "1: a", <<>>),
                                    ResultZettel("2", "B", "2: [a]", <<"t">>)>>,
                         err |-> FALSE]
      [] query = "(" -> [rows |-> <<>>, err |-> TRUE]
      [] OTHER       -> [rows |-> <<>>, err |-> FALSE]

IncorrectSyntax == ResultZettel("", "Incorrect syntax", "", <<>>)

\* "    #" + strings.ReplaceAll(z.TagsSnippet, " ", " #"); a tags snippet is
\* the sequence of its words.
hashOne(t, w) == IF t = "" THEN "    #" \o w ELSE t \o " #" \o w

hashedTags(tags) == ForEach(hashOne, "", tags)

\* The lines SearchCmd prints for one result.
printZettel(out, z) ==
    out \o <<"<yellow>" \o z.DirName \o "<reset> " \o z.TitleSnippet>>
        \o (IF z.BodySnippet # "" THEN <<z.BodySnippet>> ELSE <<>>)
        \o (IF z.TagsSnippet # <<>> THEN <<hashedTags(z.TagsSnippet)>> ELSE <<>>)

\* SearchCmd, case `query`: the results and what is printed.
searchQuery(query) ==
    IF query = "" THEN [rows |-> <<>>, out |-> <<>>]
    ELSE With(IF SearchZettels(query).err THEN <<IncorrectSyntax>>
              ELSE SearchZettels(query).rows,
              LAMBDA zettels : [rows |-> zettels,
                                out |-> ForEach(printZettel, <<>>, zettels)])

\* performSearch that keeps no row for a rejected query.
performSearchNoRow(query) ==
    IF query = "" THEN <<>> ELSE SearchZettels(query).rows

performSearch(query) ==
    IF query = "" THEN <<>>
    ELSE IF SearchZettels(query).err THEN <<IncorrectSyntax>>
    ELSE SearchZettels(query).rows

\* The slice `zettels` of setupUI before and after the load.
Loading == <<[DirName |-> "", Title |-> "Loading"]>>

AllZettels == <<[DirName |-> "2", Title |-> "B"], [DirName |-> "1", Title |-> "A"]>>

\* What a read of the slice can give while the loading goroutine assigns it
\* (pointer, length and capacity are written one by one).
TornReads == {Loading, AllZettels, <<AllZettels[1]>>}

zettelCell(z) == "[yellow]" \o z.DirName \o "[white] " \o z.Title

\* displayAll: sets one cell per zettel from row 0 on; the table is not
\* cleared.
displayAll(list, zettels) ==
    [i \in 1..Max({Len(list), Len(zettels)}) |->
        IF i <= Len(zettels) THEN zettelCell(zettels[i]) ELSE list[i]]

resultCells(cells, z) ==
    cells \o <<"[yellow]" \o z.DirName \o "[white] " \o z.TitleSnippet>>
          \o (IF z.BodySnippet # "" THEN <<z.BodySnippet>> ELSE <<>>)
          \o (IF z.TagsSnippet # <<>> THEN <<hashedTags(z.TagsSnippet)>> ELSE <<>>)
          \o <<"">>

\* updateList: clears the table and sets the cells of the results.
updateList(zettels) ==
    IF zettels = <<>> THEN <<"No matches found.">>
    ELSE ForEach(resultCells, <<>>, zettels)

NoUpdate == [f |-> "none", q |-> "", rows |-> <<>>]

InitSearch ==
    /\ Quiet
    /\ cmd = [op |-> "none", query |-> "", rows |-> <<>>, out |-> <<>>,
              ui |-> "none", text |-> "", zettels |-> Loading, loader |-> "none",
              timer |-> FALSE, workers |-> <<>>, queue |-> <<>>, list |-> <<>>,
              last |-> NoUpdate, edits |-> 0, raced |-> FALSE]

\* `zet search query <query>`.
SearchCmdQuery ==
    /\ cmd.op = "none"
    /\ \E query \in Queries :
           cmd' = [cmd EXCEPT !.op = "query", !.query = query,
                              !.rows = searchQuery(query).rows,
                              !.out = searchQuery(query).out]
    /\ UNCHANGED <<syncVars, fts>>

\* `zet search browse <query>`: setupUI up to the switch on the query; the
\* loading goroutine is started.
SearchCmdBrowse ==
    /\ cmd.op = "none"
    /\ \E query \in Queries :
           cmd' = [cmd EXCEPT !.op = "browse", !.query = query, !.ui = "setup",
                              !.loader = "start"]
    /\ UNCHANGED <<syncVars, fts>>

\* A read of the slice `zettels` by the UI code.
readZettels(c) == IF c.loader = "writing" THEN TornReads ELSE {c.zettels}

\* setupUI, the switch on the query: displayAll(zettels) or SetText(query),
\* which calls the changed function and so starts the debounce timer.  Then
\* the event loop runs.
SetupSwitch ==
    /\ cmd.ui = "setup"
    /\ IF cmd.query = ""
         THEN \E zs \in readZettels(cmd) :
                  cmd' = [cmd EXCEPT !.ui = "events",
                                     !.list = displayAll(@, zs),
                                     !.raced = @ \/ cmd.loader = "writing"]
         ELSE cmd' = [cmd EXCEPT !.ui = "events", !.text = cmd.query,
                                 !.timer = TRUE]
    /\ UNCHANGED <<syncVars, fts>>

\* The loading goroutine: AllZettels returns.
LoaderFetched ==
    /\ cmd.loader = "start"
    /\ cmd' = [cmd EXCEPT !.loader = "writing"]
    /\ UNCHANGED <<syncVars, fts>>

\* The loading goroutine: the assignment to `zettels` is complete and the
\* update is queued.
LoaderQueued ==
    /\ cmd.loader = "writing"
    /\ cmd' = [cmd EXCEPT !.loader = "done", !.zettels = AllZettels,
                          !.queue = Append(@, [f |-> "loaded", q |-> "", rows |-> <<>>])]
    /\ UNCHANGED <<syncVars, fts>>

\* The user changes the search text: the changed function stops the timer
\* and starts a new one.
ChangeText ==
    /\ cmd.ui = "events"
    /\ cmd.edits < MaxEdits
    /\ \E text \in Queries \ {cmd.text} :
           cmd' = [cmd EXCEPT !.text = text, !.timer = TRUE, !.edits = @ + 1]
    /\ UNCHANGED <<syncVars, fts>>

\* The debounce timer fires and starts a goroutine.
TimerFires ==
    /\ cmd.timer
    /\ cmd' = [cmd EXCEPT !.timer = FALSE,
                          !.workers = Append(@, [pc |-> "start", q |-> ""])]
    /\ UNCHANGED <<syncVars, fts>>

\* A search goroutine reads the text of the input field; for an empty text
\* it queues displayAll(*zettels).
WorkerReadsText ==
    \E i \in 1..Len(cmd.workers) :
        /\ cmd.workers[i].pc = "start"
        /\ IF cmd.text = ""
             THEN cmd' = [cmd EXCEPT !.workers[i].pc = "done",
                                     !.queue = Append(@, [f |-> "displayAll", q |-> "",
                                                          rows |-> <<>>])]
             ELSE cmd' = [cmd EXCEPT !.workers[i] = [pc |-> "searching", q |-> cmd.text]]
        /\ UNCHANGED <<syncVars, fts>>

\* A search goroutine: performSearch returns and updateList is queued.
WorkerSearched ==
    \E i \in 1..Len(cmd.workers) :
        /\ cmd.workers[i].pc = "searching"
        /\ cmd' = [cmd EXCEPT !.workers[i].pc = "done",
                              !.queue = Append(@, [f |-> "updateList",
                                                   q |-> cmd.workers[i].q,
                                                   rows |-> performSearch(cmd.workers[i].q)])]
        /\ UNCHANGED <<syncVars, fts>>

\* The event loop runs the next queued update.
RunUpdate ==
    /\ cmd.ui = "events"
    /\ cmd.queue # <<>>
    /\ \E u \in {Head(cmd.queue)} :
         CASE u.f = "loaded" ->
                cmd' = [cmd EXCEPT !.queue = Tail(@), !.last = u,
                                   !.list = IF cmd.text = ""
                                              THEN displayAll(@, cmd.zettels) ELSE @]
           [] u.f = "displayAll" ->
                \E zs \in readZettels(cmd) :
                    cmd' = [cmd EXCEPT !.queue = Tail(@), !.last = u,
                                       !.list = displayAll(@, zs),
                                       !.raced = @ \/ cmd.loader = "writing"]
           [] u.f = "updateList" ->
                cmd' = [cmd EXCEPT !.queue = Tail(@), !.last = u,
                                   !.list = updateList(u.rows)]
    /\ UNCHANGED <<syncVars, fts>>

NextSearch ==
    \/ SearchCmdQuery \/ SearchCmdBrowse \/ SetupSwitch \/ LoaderFetched
    \/ LoaderQueued \/ ChangeText \/ TimerFires \/ WorkerReadsText
    \/ WorkerSearched \/ RunUpdate

SpecSearch == InitSearch /\ [][NextSearch]_vars

\* C22: when SearchZettels returns an error, the query command and the UI
\* show exactly one result row, with the title snippet `Incorrect syntax` and
\* an empty directory name, body snippet and tags snippet.
RejectedQueryShowsIncorrectSyntax ==
    /\ (cmd.op = "query" /\ cmd.query # "" /\ SearchZettels(cmd.query).err)
           => /\ cmd.rows = <<ResultZettel("", "Incorrect syntax", "", <<>>)>>
              /\ cmd.out = <<"<yellow><reset> Incorrect syntax">>
    /\ (cmd.last.f = "updateList" /\ SearchZettels(cmd.last.q).err)
           => /\ cmd.last.rows = <<ResultZettel("", "Incorrect syntax", "", <<>>)>>
              /\ cmd.list = <<"[yellow][white] Incorrect syntax", "">>

\* The UI has just shown the result of a rejected query.
RejectedQueryWitness ==
    /\ cmd.op = "browse"
    /\ cmd.last.f = "updateList"
    /\ cmd.last.q = "("
    /\ cmd.list = <<"[yellow][white] Incorrect syntax", "">>

\* C24: the list of all zettels loaded in the background is handed over to
\* the UI thread before it is used: no read of the shared slice by the UI code
\* happens while the loading goroutine writes it.
NoReadDuringLoadWrite == ~cmd.raced

\* No timer is pending, no goroutine is running and no update is queued.
Settled ==
    /\ cmd.ui = "events"
    /\ ~cmd.timer
    /\ cmd.queue = <<>>
    /\ cmd.loader = "done"
    /\ \A i \in 1..Len(cmd.workers) : cmd.workers[i].pc = "done"

\* C27: after the user has changed the search text, the results list ends up
\* showing the outcome for the text that is in the input field last: all
\* zettels for an empty field, the results of the query otherwise.
LastTextWins ==
    (Settled /\ cmd.edits >= 1) =>
        IF cmd.text = ""
          THEN /\ Len(cmd.list) >= Len(AllZettels)
               /\ SubSeq(cmd.list, 1, Len(AllZettels)) = displayAll(<<>>, AllZettels)
          ELSE cmd.list = updateList(performSearch(cmd.text))

(***************************************************************************)
(* Commands that take the working directory as the note.  A path is the    *)
(* sequence of its elements; ZET_DIR is kept as the user wrote it, with or *)
(* without a closing slash.                                                *)
(***************************************************************************)
Cwds == {<<>>, <<"zet">>, <<"zet", "1">>, <<"zet", "1", "sub">>, <<"home">>,
         <<"home", "1">>, <<"home", "notes", "1">>}

ZetDirs == {[path |-> <<"zet">>, slash |-> FALSE], [path |-> <<"zet">>, slash |-> TRUE],
            [path |-> <<"home", "notes">>, slash |-> FALSE]}

CwdCommands == {"split", "title", "body", "links", "tags", "commit"}

\* Standard input of `zet split`: nothing, or a text with the body given.
SplitStdins ==
    {[empty |-> TRUE, body |-> <<Piece("")>>]}
        \cup {[empty |-> FALSE, body |-> b] :
                 b \in {<<Piece("")>>, <<H2("A"), Piece("x"), Piece("")>>,
                        <<H2("A"), H2("B"), Piece("")>>}}

\* filepath.Dir
Dir(p) == IF p = <<>> THEN <<>> ELSE SubSeq(p, 1, Len(p) - 1)

\* filepath.Base
Base(p) == IF p = <<>> THEN "/" ELSE p[Len(p)]

\* InZettel that takes every directory for a zettel.
InZettelAnywhere(cwd, root) == [p |-> cwd, ok |-> TRUE]

\* InZettel: parentDir == zetDir, a comparison of strings.
InZettel(cwd, root) ==
    [p |-> cwd, ok |-> Dir(cwd) = root.path /\ ~root.slash]

\* zettelDir of package meta: the parent has to be called zet.
zettelDir(path) ==
    IF Base(Dir(path)) # "zet" THEN [v |-> "", err |-> TRUE]
    ELSE [v |-> Base(path), err |-> FALSE]

Ran(c, err, printed, created, committed) ==
    [c EXCEPT !.op = "ran", !.err = err, !.printed = printed,
              !.created = created, !.committed = committed]

\* SplitCmd with no argument.
splitCmd(c) ==
    IF c.stdin.empty THEN Ran(c, "", FALSE, <<>>, FALSE)
    ELSE IF ~InZettel(c.cwd, c.zetDir).ok
      THEN Ran(c, "not in a zettel", FALSE, <<>>, FALSE)
    ELSE IF c.stdin.body = <<Piece("")>>
      THEN Ran(c, "zettel content is empty", FALSE, <<>>, FALSE)
    ELSE IF zettelDir(c.cwd).err \/ ~c.readme
      THEN Ran(c, "Error getting current link", FALSE, <<>>, FALSE)
    ELSE With(SplitZettel({}, 1, c.stdin.body),
              LAMBDA r : Ran(c, IF r.err THEN "Error splitting zettel content" ELSE "",
                             FALSE, r.written, FALSE))

\* titleCmd, bodyCmd, linksCmd and tagsCmd with no argument.
contentCmd(c) ==
    IF ~InZettel(c.cwd, c.zetDir).ok THEN Ran(c, "not in a zettel", FALSE, <<>>, FALSE)
    ELSE IF ~c.readme THEN Ran(c, "path does not exist", FALSE, <<>>, FALSE)
    ELSE Ran(c, "", TRUE, <<>>, FALSE)

\* CommitCmd with no argument.
commitCmd(c) ==
    IF ~InZettel(c.cwd, c.zetDir).ok THEN Ran(c, "not in a zettel", FALSE, <<>>, FALSE)
    ELSE IF ~c.readme THEN Ran(c, "Failed to retrieve zettel title", FALSE, <<>>, FALSE)
    ELSE Ran(c, "", FALSE, <<>>, TRUE)

InitCwd ==
    /\ Quiet
    /\ cmd \in {[op |-> "shell", name |-> "", cwd |-> cwd, zetDir |-> z,
                 stdin |-> in, readme |-> r, err |-> "", printed |-> FALSE,
                 created |-> <<>>, committed |-> FALSE] :
                    cwd \in Cwds, z \in ZetDirs, in \in SplitStdins, r \in BOOLEAN}

RunSplitCmd ==
    /\ cmd.op = "shell"
    /\ cmd' = splitCmd([cmd EXCEPT !.name = "split"])
    /\ UNCHANGED <<syncVars, fts>>

RunContentCmd ==
    /\ cmd.op = "shell"
    /\ \E name \in {"title", "body", "links", "tags"} :
           cmd' = contentCmd([cmd EXCEPT !.name = name])
    /\ UNCHANGED <<syncVars, fts>>

RunCommitCmd ==
    /\ cmd.op = "shell"
    /\ cmd' = commitCmd([cmd EXCEPT !.name = "commit"])
    /\ UNCHANGED <<syncVars, fts>>

NextCwd == RunSplitCmd \/ RunContentCmd \/ RunCommitCmd

SpecCwd == InitCwd /\ [][NextCwd]_vars

\* The command ran in a directory whose parent is not the notes root.
OutsideAZettel == cmd.op = "ran" /\ Dir(cmd.cwd) # cmd.zetDir.path

FailedNotInZettel ==
    /\ cmd.err = "not in a zettel"
    /\ cmd.created = <<>>
    /\ ~cmd.committed
    /\ ~cmd.printed

\* C23, as stated: every command that takes the working directory as the
\* note fails with `not in a zettel` when the parent of the working directory
\* is not the notes root, and creates or changes nothing.
EveryCwdCommandFailsOutsideAZettel == OutsideAZettel => FailedNotInZettel

\* C23, amended: the same, split being given a standard input that is not
\* empty; `zet split` with nothing on standard input returns without an error
\* wherever it is run.
CwdCommandWithInputFailsOutsideAZettel ==
    (OutsideAZettel /\ (cmd.name = "split" => ~cmd.stdin.empty)) => FailedNotInZettel

\* A split of a text with two sub-notes was refused outside a zettel.
SplitOutsideAZettelWitness ==
    /\ OutsideAZettel
    /\ cmd.name = "split"
    /\ cmd.stdin.body = <<H2("A"), H2("B"), Piece("")>>
    /\ cmd.err = "not in a zettel"

(***************************************************************************)
(* Further properties of the synchronisation.                              *)
(***************************************************************************)
\* C25: a sync leaves the id of a note whose file is still on disk under the
\* same directory and file name: the note is not deleted and inserted again,
\* also when other notes and directories are deleted in the same run.
IdsAreStable ==
    (lastSync # "none" /\ ~dirty) =>
        \A z \in before.zettel :
            onDisk(z.dir_name, z.name) =>
                \E y \in cat.zettel :
                    y.id = z.id /\ y.dir_name = z.dir_name /\ y.name = z.name

\* A sync deleted the notes of a directory that is gone and kept a note whose
\* file is on disk.
KeptWhileOthersDeletedWitness ==
    /\ lastSync = "ok" /\ ~dirty
    /\ \E z \in before.zettel, w \in before.zettel :
           /\ onDisk(z.dir_name, z.name)
           /\ z \in cat.zettel
           /\ ~disk[w.dir_name].exists
           /\ \A y \in cat.zettel : y.id # w.id

(***************************************************************************)
(* insertFile and insertTags on the catalog of sql.go, where tag.name is   *)
(* UNIQUE and (zettel_id, tag_id) is the primary key of zettel_tags.       *)
(***************************************************************************)
MaxTags == 2                 \* tokens of a tag line

TagToks == {Tok(TRUE, "t1"), Tok(TRUE, "t2"), Tok(FALSE, "bad")}

TagLines == UNION {[1..n -> TagToks] : n \in 0..MaxTags}

\* One round of the loop of insertTags: the INSERT into tag with ON
\* CONFLICT(name) DO NOTHING, the SELECT of the id when no row came back, and
\* the plain INSERT into zettel_tags, which the primary key rejects for a
\* pair that is there.
insertTagSql(a, zettelID, name) ==
    IF a.err THEN a
    ELSE With(IF \E r \in a.t.tag : r.name = name THEN a.t
              ELSE [a.t EXCEPT !.tag = @ \cup
                       {[id |-> Max({0} \cup {r.id : r \in a.t.tag}) + 1,
                         name |-> name]}],
              LAMBDA t1 :
                  With((CHOOSE r \in t1.tag : r.name = name).id,
                       LAMBDA tagID :
                           IF [zettel_id |-> zettelID, tag_id |-> tagID] \in t1.zettel_tags
                             THEN [t |-> t1, err |-> TRUE]
                             ELSE [t |-> refreshTags(
                                            [t1 EXCEPT !.zettel_tags = @ \cup
                                                {[zettel_id |-> zettelID,
                                                  tag_id |-> tagID]}], zettelID),
                                   err |-> FALSE]))

insertTagsSql(t, zettelID, tags) ==
    ForEach(LAMBDA a, name : insertTagSql(a, zettelID, name),
            [t |-> t, err |-> FALSE], tags)

\* insertFile: the zettel row, then its tags.
insertFileSql(t, title, body, tags) ==
    With([t EXCEPT !.zettel = @ \cup {[id |-> t.seq + 1, title |-> title, body |-> body]},
                   !.zettel_fts = @ \cup {[rowid |-> t.seq + 1, title |-> title,
                                           body |-> body, tags |-> <<>>]},
                   !.seq = @ + 1],
         LAMBDA t1 : insertTagsSql(t1, t.seq + 1, tags))

\* A sync indexes one new note with the tag line toks; after an error nothing
\* is committed.
IndexNote ==
    \E title \in Titles, body \in Bodies, toks \in TagLines :
        /\ fts.seq < MaxRows
        /\ \E r \in {insertFileSql(fts, title, body, tagsOf(toks))} :
               /\ fts' = IF r.err THEN fts ELSE r.t
               /\ cmd' = [op |-> "index", id |-> fts.seq + 1, tags |-> tagsOf(toks),
                          err |-> r.err]
        /\ UNCHANGED syncVars

NextTags == IndexNote

SpecTags == Init /\ [][NextTags]_vars

\* The same tag is named twice.
repeated(tags) == \E i, j \in 1..Len(tags) : i # j /\ tags[i] = tags[j]

\* C26: a note whose tag line names a tag more than once is indexed without
\* an error, with one tag row and one note-tag association for that tag.
RepeatedTagIsIndexedOnce ==
    (cmd.op = "index" /\ repeated(cmd.tags)) =>
        /\ ~cmd.err
        /\ \A i \in 1..Len(cmd.tags) :
               /\ Cardinality({r \in fts.tag : r.name = cmd.tags[i]}) = 1
               /\ Cardinality({a \in fts.zettel_tags :
                                  /\ a.zettel_id = cmd.id
                                  /\ \E r \in fts.tag :
                                         r.id = a.tag_id /\ r.name = cmd.tags[i]}) = 1

\* Catalog c has, for every link line of a readable note on disk whose target
\* directory has a note in c, a link row of that note with the line.
linkRowsOf(c) ==
    \A d \in Dirs, n \in Names :
        (onDisk(d, n) /\ disk[d].files[n].readable) =>
            \A i \in 1..Len(fileZettel(d, n).Links) :
                (\E y \in c.zettel : y.dir_name = fileZettel(d, n).Links[i].d) =>
                    \E z \in c.zettel, r \in c.link :
                        /\ z.dir_name = d /\ z.name = n
                        /\ r.zettel_id = z.id
                        /\ r.content = fileZettel(d, n).Links[i]

\* C28: a link row exists for every link line whose target directory is
\* indexed, whatever the order of the walk, at the latest after the next
\* sync: a successful sync that follows a successful sync of the same notes
\* root leaves the catalog with all these rows.
LinksAreIndexedByTheSecondSync ==
    [][(UpdateDB /\ ~dirty /\ lastSync = "ok" /\ lastSync' = "ok")
           => linkRowsOf(cat')]_vars

(***************************************************************************)
(* Link lines: the line Link of package meta writes, and the link patterns *)
(* of splitZettel and ParseLinks matched against it.  A line is the        *)
(* sequence of its characters.                                             *)
(***************************************************************************)
MaxTitle == 3                \* characters of a title

DirNames == {<<"1">>, <<"2", "0">>, <<"2", "1">>}

TitleChars == {"A", " ", ")"}

\* The title `[a](../b) c` has the form of a link itself.
LinkTitles ==
    UNION {[1..n -> TitleChars] : n \in 0..MaxTitle}
        \cup {<<"[", "a", "]", "(", ".", ".", "/", "b", ")", " ", "c">>}

\* fmt.Sprintf(linkFormat, d, d, t) with linkFormat "* [%s](../%s) %s"
Link(d, t) ==
    <<"*", " ", "[">> \o d \o <<"]", "(", ".", ".", "/">> \o d \o <<")", " ">> \o t

\* The characters w stand in line from place p on.
at(line, p, w) ==
    /\ p >= 1
    /\ p + Len(w) - 1 <= Len(line)
    /\ \A i \in 1..Len(w) : line[p + i - 1] = w[i]

\* The ways \[(.+)\]\(\.\./(.*?)/?\) (.+) matches in line: `[` at i, `](../`
\* at j, the second group ends before k, where `) ` or `/) ` stands with at
\* least one character after it.
linkMatches(line) ==
    {m \in (1..Len(line)) \X (1..Len(line)) \X (1..Len(line)) :
        /\ line[m[1]] = "["
        /\ m[2] >= m[1] + 2
        /\ at(line, m[2], <<"]", "(", ".", ".", "/">>)
        /\ m[3] >= m[2] + 5
        /\ \/ at(line, m[3], <<")", " ">>) /\ m[3] + 2 <= Len(line)
           \/ at(line, m[3], <<"/", ")", " ">>) /\ m[3] + 3 <= Len(line)}

\* The match the engine reports: it starts at i, the first group is the
\* longest and the second the shortest that allow a match.
submatch(line, i) ==
    With(Max({m[2] : m \in {m \in linkMatches(line) : m[1] = i}}),
         LAMBDA j :
             With(Min({m[3] : m \in {m \in linkMatches(line) : m[1] = i /\ m[2] = j}}),
                  LAMBDA k : [matched |-> TRUE, dir |-> SubSeq(line, j + 5, k - 1)]))

NoMatch == [matched |-> FALSE, dir |-> <<>>]

\* linkRegex of splitZettel: the leftmost match.
storageLinkRegex(line) ==
    IF linkMatches(line) = {} THEN NoMatch
    ELSE submatch(line, Min({m[1] : m \in linkMatches(line)}))

\* linkRegex of ParseLinks, which begins with ^.* : the match whose `[` is
\* the rightmost.
metaLinkRegex(line) ==
    IF linkMatches(line) = {} THEN NoMatch
    ELSE submatch(line, Max({m[1] : m \in linkMatches(line)}))

InitLink ==
    /\ Quiet
    /\ cmd \in {[op |-> "zettel", d |-> d, t |-> t, line |-> <<>>,
                 storage |-> NoMatch, meta |-> NoMatch] :
                    d \in DirNames, t \in LinkTitles}

\* Link writes the link line of zettel d with the title t.
RunLink ==
    /\ cmd.op = "zettel"
    /\ cmd' = [cmd EXCEPT !.op = "Link", !.line = Link(cmd.d, cmd.t)]
    /\ UNCHANGED <<syncVars, fts>>

\* The parsers meet the line in a note.
ParseLinkLine ==
    /\ cmd.op = "Link"
    /\ cmd' = [cmd EXCEPT !.op = "parsed", !.storage = storageLinkRegex(cmd.line),
                          !.meta = metaLinkRegex(cmd.line)]
    /\ UNCHANGED <<syncVars, fts>>

NextLink == RunLink \/ ParseLinkLine

SpecLink == InitLink /\ [][NextLink]_vars

\* C29: for every directory name d and every title t, empty or not, the line
\* Link writes is a link line to the link patterns, with d as the captured
\* directory.
LinkLineIsParsedAsLink ==
    cmd.op = "parsed" =>
        /\ cmd.storage.matched /\ cmd.storage.dir = cmd.d
        /\ cmd.meta.matched /\ cmd.meta.dir = cmd.d

(***************************************************************************)
(* Create after Split: both name directories from Isosec, Create by the    *)
(* present second, Split by the seconds that follow it.  The command keeps *)
(* the seconds in which the earlier Create and Split were started and the  *)
(* directories they made.                                                  *)
(***************************************************************************)
InitCreate ==
    /\ Quiet
    /\ cmd = [op |-> "none", notes |-> {}, clock |-> 1, started |-> {}, made |-> {},
              earlier |-> {}, theirs |-> {}, err |-> FALSE]

\* `zet split` at the present second.
SplitNow ==
    \E b \in BodyTexts :
        /\ \E r \in {SplitZettel(cmd.notes, cmd.clock, b)} :
               cmd' = [op |-> "split", notes |-> r.notes, clock |-> cmd.clock,
                       started |-> cmd.started \cup {cmd.clock},
                       made |-> cmd.made \cup {r.written[i] : i \in 1..Len(r.written)},
                       earlier |-> cmd.started, theirs |-> cmd.made, err |-> r.err]
        /\ UNCHANGED <<syncVars, fts>>

\* `zet add` at the present second.
CreateNow ==
    \E title \in AddTitles :
        /\ \E r \in {CreateAdd(cmd.notes, cmd.clock, title, <<>>, <<>>, <<>>)} :
               cmd' = [op |-> "add", notes |-> r.notes, clock |-> cmd.clock,
                       started |-> cmd.started \cup {cmd.clock},
                       made |-> cmd.made \cup (IF r.err THEN {} ELSE {cmd.clock}),
                       earlier |-> cmd.started, theirs |-> cmd.made, err |-> r.err]
        /\ UNCHANGED <<syncVars, fts>>

NextCreate == SplitNow \/ CreateNow \/ Second

SpecCreate == InitCreate /\ [][NextCreate]_vars

\* C30: a Create issued in a second later than the second in which every
\* earlier Create or Split was started does not fail on a directory that one
\* of those earlier operations made.
CreateInALaterSecondDoesNotCollide ==
    (cmd.op = "add" /\ \A s \in cmd.earlier : cmd.clock > s)
        => ~(cmd.err /\ cmd.clock \in cmd.theirs)

====
